---------------------------- MODULE Spec2Model ----------------------------
(***************************************************************************)
(* SOM dashboard (my_som_dashboard): the start-up pipeline of main.py      *)
(* (assign_clusters, compute_cluster_means, create_cluster_buttons,        *)
(* build_hex_plot, build_map_plot, build_data_table) and the browser-side  *)
(* selection-sync callbacks 6a/6b/6c and the U-Matrix toggle callback.     *)
(*                                                                         *)
(* Library behaviour the callbacks run on (BokehJS):                       *)
(*   - assigning `src.selected.indices = v` inside a callback compares v   *)
(*     with the current value element by element; only when they differ    *)
(*     is the value stored and the 'indices' change callback of that       *)
(*     source run, synchronously, before the assigning callback continues; *)
(*   - a user selection event (tap, shift-tap) stores the new indices and  *)
(*     runs the 'indices' change callback of that source;                  *)
(*   - `src.change.emit()` only repaints: no callback listens to it;       *)
(*   - the table source has no 'indices' callback.                         *)
(* Arrays are 0-based functions (data columns) or sequences (index lists). *)
(***************************************************************************)
EXTENDS Integers, Sequences, FiniteSets

\* ---------------------------------------------------------------- bounds
\* number of SOM nodes x_dim * y_dim of the interactive model
MaxNodes == 2
\* largest configured n_clusters of the interactive model
MaxClusters == 2
\* number of observations (= regions) of the interactive model
NObs == 2
\* number of SOM nodes / largest n_clusters / observations of the
\* pipeline-only model
PipeNodes == 3
PipeClusters == 3
PipeObs == 2
\* longest index list a user selection event delivers
MaxSel == 1
\* deepest nesting of running callbacks the model allows
MaxDepth == 8

VARIABLES
    pc,               \* position in main.py's module-level pipeline
    x_dim, y_dim,     \* SOM grid dimensions (train_som)
    n_clusters,       \* configured number of clusters (assign_clusters)
    n_obs,            \* number of rows of scaled_df / geo_df
    winner,           \* som.winner(obs) of every observation
    um_flat,          \* compute_umatrix(som)
    node_labels,      \* hc.fit_predict(flat_weights) of assign_clusters
    hex_df,           \* result of assign_clusters
    cluster_means_df, \* result of compute_cluster_means
    cluster_buttons,  \* result of create_cluster_buttons
    hex_src,          \* source_hex : data columns, selected.indices
    map_src,          \* source_map : data columns, selected.indices
    table_src,        \* source_table : selected.indices
    toggle,           \* the U-Matrix Toggle widget
    bars,             \* visibility of the two colour bars
    stack,            \* the running callbacks, innermost last
    ev,               \* history: the last user event
    rep,              \* history: how it repeats the event before it
    snap              \* history: view before the first toggle of a pair

vars == <<pc, x_dim, y_dim, n_clusters, n_obs, winner, um_flat, node_labels,
          hex_df, cluster_means_df, cluster_buttons, hex_src, map_src,
          table_src, toggle, bars, stack, ev, rep, snap>>

\* JavaScript null / undefined, Python None
Null == 0 - 1

\* ------------------------------------------------------------- helpers
Range(f) == {f[i] : i \in DOMAIN f}

SetMax(S) == CHOOSE m \in S : \A s \in S : s <= m

SetMin(S) == CHOOSE m \in S : \A s \in S : m <= s

\* the elements of a finite set of integers in ascending order
RECURSIVE Ascending(_)
Ascending(S) ==
    IF S = {} THEN <<>>
    ELSE LET m == SetMin(S) IN <<m>> \o Ascending(S \ {m})

\* the index lists a selection tool reports: up to len indices of S, in
\* ascending order
IndexLists(S, len) ==
    {Ascending(T) : T \in {U \in SUBSET S : Cardinality(U) <= len}}

\* ------------------------------------------------ inputs of the pipeline
\* the grids with exactly `nodes` units
GridShapes(nodes) ==
    {s \in (1..nodes) \X (1..nodes) : s[1] * s[2] = nodes}

\* the one-column grid: the callbacks only compare coordinates for equality
ColumnGrid(nodes) == {<<nodes, 1>>}

\* U-matrices over n units: rising and falling along the flat index
Rising(n) == [i \in 0..(n - 1) |-> i]

Falling(n) == [i \in 0..(n - 1) |-> (n - 1) - i]

NumNodes == x_dim * y_dim

Nodes == 0..(NumNodes - 1)

Observations == 0..(n_obs - 1)

\* a data source before it is built
NoSource == [data |-> <<>>, selected |-> [indices |-> <<>>]]

\* no user event yet
NoEvent == [kind |-> "none", arg |-> Null, fresh |-> FALSE]

NoSnap == <<>>

\* main.py 20-28: the data is loaded and scaled, the SOM trained and its
\* U-matrix computed; what the libraries returned is drawn from bounded sets
InitWith(shapes, umatrices, nodes, clusters, obs) ==
    /\ pc = "assign_clusters"
    /\ \E shape \in shapes : x_dim = shape[1] /\ y_dim = shape[2]
    /\ n_clusters \in 1..(IF clusters < nodes THEN clusters ELSE nodes)
    /\ n_obs = obs
    /\ winner \in [0..(obs - 1) -> (0..(x_dim - 1)) \X (0..(y_dim - 1))]
    /\ um_flat \in umatrices
    /\ node_labels = <<>>
    /\ hex_df = <<>>
    /\ cluster_means_df = <<>>
    /\ cluster_buttons = <<>>
    /\ hex_src = NoSource
    /\ map_src = NoSource
    /\ table_src = NoSource
    /\ toggle = [active |-> FALSE]
    /\ bars = [bar_c |-> TRUE, bar_u |-> FALSE]
    /\ stack = <<>>
    /\ ev = NoEvent
    /\ rep = 0
    /\ snap = NoSnap

Init ==
    InitWith(ColumnGrid(MaxNodes), {Rising(MaxNodes)},
             MaxNodes, MaxClusters, NObs)

InitPipeline ==
    InitWith(GridShapes(PipeNodes), {Rising(PipeNodes), Falling(PipeNodes)},
             PipeNodes, PipeClusters, PipeObs)

\* ------------------------------------------------------------ pipeline
\* sklearn AgglomerativeClustering(n_clusters = k) over n weight vectors:
\* some labelling of the n units that uses each of 0..k-1 at least once
Labelings(n, k) ==
    {f \in [0..(n - 1) -> 0..(k - 1)] :
        \A c \in 0..(k - 1) : \E i \in 0..(n - 1) : f[i] = c}

\* a second fit over the same weights: the same labels for the same k
\* (the fit is deterministic); for a smaller k the classes of the first fit
\* are merged, and the numbering of the merged classes is the library's
AgglomerativeRefit(first, k) ==
    IF Cardinality(Range(first)) = k THEN {first}
    ELSE {f \in Labelings(Cardinality(DOMAIN first), k) :
             \A a, b \in DOMAIN first : first[a] = first[b] => f[a] = f[b]}

\* cluster_analysis.py 38-54: BMU coordinates and the BMU's node label
assign_clusters(labels) ==
    [o \in Observations |->
        LET i == winner[o][1]
            j == winner[o][2]
            flat_idx == i * y_dim + j
        IN [bmu_x |-> i, bmu_y |-> j, hc_cluster |-> labels[flat_idx]]]

\* cluster_analysis.py 78-84: groupby('hc_cluster') keeps one row per cluster
\* id present among the observations, ascending; reset_index makes the id a
\* column (the mean columns are not modelled)
compute_cluster_means(df) ==
    [hc_cluster |-> Ascending({df[o].hc_cluster : o \in DOMAIN df})]

\* widgets.py 31-35: buttons labelled 0..n-1
create_cluster_buttons(n) == [i \in 0..(n - 1) |-> [label |-> i]]

\* plots.py 54: int((d - um_min) / (um_max - um_min) * 255)
UNorm(d, um_min, um_max) == ((d - um_min) * 255) \div (um_max - um_min)

\* plots.py 33-34: (Category10[10] * (n // 10 + 1))[:n]
cluster_palette(label) == <<"Category10", label % 10>>

Viridis256(norm) == <<"Viridis256", norm>>

\* plots.py 48-65: one record per SOM unit, in flat-index order
node_source(labels) ==
    LET um_min == SetMin(Range(um_flat))
        um_max == SetMax(Range(um_flat))
        u_color == [idx \in Nodes |->
                       Viridis256(UNorm(um_flat[idx], um_min, um_max))]
        color == [idx \in Nodes |-> cluster_palette(labels[idx])]
    IN [data |-> [bmu_x |-> [idx \in Nodes |-> idx \div y_dim],
                  bmu_y |-> [idx \in Nodes |-> idx % y_dim],
                  hc_cluster |-> labels,
                  u_color |-> u_color,
                  color |-> color,
                  display_color |-> color,
                  _skip |-> FALSE,
                  _last_sel |-> Null],
        selected |-> [indices |-> <<>>]]

\* main.py 43 and plots.py 150-154: the regions carry the observations'
\* BMU coordinates and cluster ids
map_source(df) ==
    [data |-> [bmu_x |-> [o \in DOMAIN df |-> df[o].bmu_x],
               bmu_y |-> [o \in DOMAIN df |-> df[o].bmu_y],
               hc_cluster |-> [o \in DOMAIN df |-> df[o].hc_cluster],
               _skip |-> FALSE,
               _last_sel |-> Null],
     selected |-> [indices |-> <<>>]]

UIvars == <<hex_src, map_src, table_src, toggle, bars, stack, ev, rep, snap>>

Inputs == <<x_dim, y_dim, n_clusters, n_obs, winner, um_flat>>

\* main.py 31 / cluster_analysis.py 31-36
AssignClusters ==
    /\ pc = "assign_clusters"
    /\ \E labels \in Labelings(NumNodes, n_clusters) :
          /\ node_labels' = labels
          /\ hex_df' = assign_clusters(labels)
    /\ pc' = "compute_cluster_means"
    /\ UNCHANGED <<Inputs, cluster_means_df, cluster_buttons, UIvars>>

\* main.py 32
ComputeClusterMeans ==
    /\ pc = "compute_cluster_means"
    /\ cluster_means_df' = compute_cluster_means(hex_df)
    /\ pc' = "create_widgets"
    /\ UNCHANGED <<Inputs, node_labels, hex_df, cluster_buttons, UIvars>>

\* main.py 35-36
CreateWidgets ==
    /\ pc = "create_widgets"
    /\ toggle' = [active |-> FALSE]
    /\ cluster_buttons' =
          create_cluster_buttons(Len(cluster_means_df.hc_cluster))
    /\ pc' = "build_hex_plot"
    /\ UNCHANGED <<Inputs, node_labels, hex_df, cluster_means_df, hex_src,
                   map_src, table_src, bars, stack, ev, rep, snap>>

\* main.py 40 / plots.py 32-65, 113-123
BuildHexPlot ==
    /\ pc = "build_hex_plot"
    /\ SetMax(Range(um_flat)) # SetMin(Range(um_flat))
    /\ LET n == SetMax({hex_df[o].hc_cluster : o \in Observations}) + 1
       IN \E labels \in AgglomerativeRefit(node_labels, n) :
             hex_src' = node_source(labels)
    /\ bars' = [bar_c |-> TRUE, bar_u |-> FALSE]
    /\ pc' = "build_map_plot"
    /\ UNCHANGED <<Inputs, node_labels, hex_df, cluster_means_df,
                   cluster_buttons, map_src, table_src, toggle, stack, ev,
                   rep, snap>>

\* main.py 43-44 / plots.py 150-154
BuildMapPlot ==
    /\ pc = "build_map_plot"
    /\ map_src' = map_source(hex_df)
    /\ pc' = "build_data_table"
    /\ UNCHANGED <<Inputs, node_labels, hex_df, cluster_means_df,
                   cluster_buttons, hex_src, table_src, toggle, bars, stack,
                   ev, rep, snap>>

\* main.py 46-47 / plots.py 180-186; the callbacks of 6a-6c are attached and
\* the document is served
BuildDataTable ==
    /\ pc = "build_data_table"
    /\ table_src' = [data |-> cluster_means_df,
                     selected |-> [indices |-> <<>>]]
    /\ pc' = "ui"
    /\ UNCHANGED <<Inputs, node_labels, hex_df, cluster_means_df,
                   cluster_buttons, hex_src, map_src, toggle, bars, stack,
                   ev, rep, snap>>

\* ------------------------------------------------- browser-side callbacks
Quiescent == pc = "ui" /\ stack = <<>>

Running == pc = "ui" /\ stack # <<>>

Top == stack[Len(stack)]

Below == SubSeq(stack, 1, Len(stack) - 1)

\* a running callback: which one, where it continues, its constants
Frame(h, at, inds, cl, already) ==
    [h |-> h, at |-> at, inds |-> inds, cl |-> cl, already |-> already]

\* the callback continues at `at` after the statement being executed
Continue(at) == <<[Top EXCEPT !.at = at]>>

Return == <<>>

\* `hex_src.selected.indices = v`, executed on the source value `src` (which
\* carries the flag updates of the same statement block), with `below` the
\* callbacks beneath the assigning one and `rest` what is left of that one:
\* 6b runs, nested, only when v differs from the current indices
SetHexIndices(src, v, below, rest) ==
    IF v # src.selected.indices
    THEN /\ Len(below) + Len(rest) < MaxDepth
         /\ hex_src' = [src EXCEPT !.selected.indices = v]
         /\ stack' = below \o rest \o <<Frame("hex", "start", v, Null, FALSE)>>
    ELSE /\ hex_src' = src
         /\ stack' = below \o rest

\* `map_src.selected.indices = v`: likewise, 6c runs when v differs
SetMapIndices(src, v, below, rest) ==
    IF v # src.selected.indices
    THEN /\ Len(below) + Len(rest) < MaxDepth
         /\ map_src' = [src EXCEPT !.selected.indices = v]
         /\ stack' = below \o rest \o <<Frame("map", "start", v, Null, FALSE)>>
    ELSE /\ map_src' = src
         /\ stack' = below \o rest

\* `table_src.selected.indices = v`: no callback listens
SetTableIndices(v) ==
    table_src' = [table_src EXCEPT !.selected.indices = v]

\* main.py 58-62
hex_inds(cl) ==
    Ascending({j \in DOMAIN hex_src.data.hc_cluster :
                  hex_src.data.hc_cluster[j] = cl})

\* main.py 64-68
map_inds(cl) ==
    Ascending({j \in DOMAIN map_src.data.hc_cluster :
                  map_src.data.hc_cluster[j] = cl})

\* a variant that does not look at which row is selected
already_any_row(cl) == Len(table_src.selected.indices) = 1

\* main.py 70-71
already_selected(cl) ==
    /\ Len(table_src.selected.indices) = 1
    /\ table_src.selected.indices[1] = cl

\* main.py 115-124
region_inds(idx) ==
    LET bx == hex_src.data.bmu_x[idx]
        by == hex_src.data.bmu_y[idx]
    IN Ascending({i \in DOMAIN map_src.data.bmu_x :
                     map_src.data.bmu_x[i] = bx /\ map_src.data.bmu_y[i] = by})

\* a variant whose coordinate test is inverted: the first unit that is
\* not at the region's BMU coordinates
hex_i_inds_other_unit(idx) ==
    LET bx == map_src.data.bmu_x[idx]
        by == map_src.data.bmu_y[idx]
        hits == {i \in DOMAIN hex_src.data.bmu_x :
                    ~(hex_src.data.bmu_x[i] = bx /\ hex_src.data.bmu_y[i] = by)}
    IN IF hits = {} THEN <<>> ELSE <<SetMin(hits)>>

\* main.py 163-171: [hex_i] for the first unit at the region's BMU
\* coordinates, [] when there is none
hex_i_inds(idx) ==
    LET bx == map_src.data.bmu_x[idx]
        by == map_src.data.bmu_y[idx]
        hits == {i \in DOMAIN hex_src.data.bmu_x :
                    hex_src.data.bmu_x[i] = bx /\ hex_src.data.bmu_y[i] = by}
    IN IF hits = {} THEN <<>> ELSE <<SetMin(hits)>>

\* main.py 108 / 157: inds.length === 1 ? inds[0] : null
last_sel(inds) == IF Len(inds) = 1 THEN inds[1] ELSE Null

\* main.py 97 / 146: a single index that is the remembered one
is_repeat(inds, last) == Len(inds) = 1 /\ last = inds[1]

\* ---- history of user events (read by the properties only)
\* an event is `fresh` when it is a click on a cluster not selected in the
\* table, a selection of a single index other than the remembered one, or a
\* toggle that switches the U-Matrix on.  rep = 1: the event repeats the one
\* before it, which was fresh; rep = 2: a button click repeats a click that
\* was not fresh
Record(kind, arg, fresh) ==
    /\ ev' = [kind |-> kind, arg |-> arg, fresh |-> fresh]
    /\ rep' = IF ev.kind = kind /\ ev.arg = arg
              THEN (IF ev.fresh THEN 1 ELSE IF kind = "btn" THEN 2 ELSE 0)
              ELSE 0

View ==
    [display_color |-> hex_src.data.display_color, bars |-> bars,
     hex |-> hex_src.selected.indices, map |-> map_src.selected.indices,
     table |-> table_src.selected.indices]

Built == <<pc, Inputs, node_labels, hex_df, cluster_means_df, cluster_buttons>>

\* ---- 6a: a cluster button is clicked (main.py 50-84)
\* lines 58-72 and the first assignment (73 or 77)
ClusterButtonClick(cl) ==
    /\ Quiescent
    /\ cl \in DOMAIN cluster_buttons
    /\ LET already == already_selected(cl)
       IN /\ SetHexIndices(hex_src,
                           IF already THEN <<>> ELSE hex_inds(cl),
                           <<>>,
                           <<Frame("btn", "map", <<>>, cl, already)>>)
          /\ Record("btn", cl, table_src.selected.indices # <<cl>>)
    /\ snap' = NoSnap
    /\ UNCHANGED <<Built, map_src, table_src, toggle, bars>>

\* line 74 or 78
ButtonSetMap ==
    /\ Running /\ Top.h = "btn" /\ Top.at = "map"
    /\ SetMapIndices(map_src,
                     IF Top.already THEN <<>> ELSE map_inds(Top.cl),
                     Below, Continue("table"))
    /\ UNCHANGED <<Built, hex_src, table_src, toggle, bars, ev, rep, snap>>

\* line 75 or 79, and the emits of 81-83
ButtonSetTable ==
    /\ Running /\ Top.h = "btn" /\ Top.at = "table"
    /\ SetTableIndices(IF Top.already THEN <<>> ELSE <<Top.cl>>)
    /\ stack' = Below \o Return
    /\ UNCHANGED <<Built, hex_src, map_src, toggle, bars, ev, rep, snap>>

\* ---- 6b: source_hex.selected 'indices' callback (main.py 87-133)
\* a variant that returns without resetting the flag
HexSkipKeepsFlag ==
    /\ hex_src.data._skip
    /\ stack' = Below \o Return
    /\ UNCHANGED <<hex_src, map_src, table_src>>

\* lines 93-96: the one-shot skip
HexSkip ==
    /\ hex_src.data._skip
    /\ hex_src' = [hex_src EXCEPT !.data._skip = FALSE]
    /\ stack' = Below \o Return
    /\ UNCHANGED <<map_src, table_src>>

\* lines 97-99: toggle-off, up to the assignment that clears the hex selection
HexToggleOff ==
    /\ ~hex_src.data._skip
    /\ is_repeat(Top.inds, hex_src.data._last_sel)
    /\ SetHexIndices([hex_src EXCEPT !.data._skip = TRUE], <<>>,
                     Below, Continue("off_map"))
    /\ UNCHANGED <<map_src, table_src>>

\* lines 108-125, 128-130: remember the index, propagate to the map
HexPropagate ==
    /\ ~hex_src.data._skip
    /\ ~is_repeat(Top.inds, hex_src.data._last_sel)
    /\ hex_src' = [hex_src EXCEPT !.data._last_sel = last_sel(Top.inds)]
    /\ CASE Len(Top.inds) = 0 ->
              SetMapIndices(map_src, <<>>, Below, Continue("empty_table"))
         [] Len(Top.inds) = 1 ->
              SetMapIndices(map_src, region_inds(Top.inds[1]),
                            Below, Continue("select_table"))
         [] OTHER ->
              /\ stack' = Below \o Return
              /\ UNCHANGED map_src
    /\ UNCHANGED table_src

HexStart ==
    /\ Running /\ Top.h = "hex" /\ Top.at = "start"
    /\ \/ HexSkip
       \/ HexToggleOff
       \/ HexPropagate
    /\ UNCHANGED <<Built, toggle, bars, ev, rep, snap>>

\* line 100
HexOffMap ==
    /\ Running /\ Top.h = "hex" /\ Top.at = "off_map"
    /\ SetMapIndices(map_src, <<>>, Below, Continue("off_table"))
    /\ UNCHANGED <<Built, hex_src, table_src, toggle, bars, ev, rep, snap>>

\* lines 101-106
HexOffTable ==
    /\ Running /\ Top.h = "hex" /\ Top.at = "off_table"
    /\ SetTableIndices(<<>>)
    /\ hex_src' = [hex_src EXCEPT !.data._last_sel = Null]
    /\ stack' = Below \o Return
    /\ UNCHANGED <<Built, map_src, toggle, bars, ev, rep, snap>>

\* lines 111, 131-132
HexEmptyTable ==
    /\ Running /\ Top.h = "hex" /\ Top.at = "empty_table"
    /\ SetTableIndices(<<>>)
    /\ stack' = Below \o Return
    /\ UNCHANGED <<Built, hex_src, map_src, toggle, bars, ev, rep, snap>>

\* lines 126-127, 131-132
HexSelectTable ==
    /\ Running /\ Top.h = "hex" /\ Top.at = "select_table"
    /\ SetTableIndices(<<hex_src.data.hc_cluster[Top.inds[1]]>>)
    /\ stack' = Below \o Return
    /\ UNCHANGED <<Built, hex_src, map_src, toggle, bars, ev, rep, snap>>

\* ---- 6c: source_map.selected 'indices' callback (main.py 136-179)
\* lines 142-145
MapSkip ==
    /\ map_src.data._skip
    /\ map_src' = [map_src EXCEPT !.data._skip = FALSE]
    /\ stack' = Below \o Return
    /\ UNCHANGED <<hex_src, table_src>>

\* lines 146-148
MapToggleOff ==
    /\ ~map_src.data._skip
    /\ is_repeat(Top.inds, map_src.data._last_sel)
    /\ SetMapIndices([map_src EXCEPT !.data._skip = TRUE], <<>>,
                     Below, Continue("off_hex"))
    /\ UNCHANGED <<hex_src, table_src>>

\* lines 157-171, 174-176
MapPropagate ==
    /\ ~map_src.data._skip
    /\ ~is_repeat(Top.inds, map_src.data._last_sel)
    /\ map_src' = [map_src EXCEPT !.data._last_sel = last_sel(Top.inds)]
    /\ CASE Len(Top.inds) = 0 ->
              SetHexIndices(hex_src, <<>>, Below, Continue("empty_table"))
         [] Len(Top.inds) = 1 ->
              SetHexIndices(hex_src, hex_i_inds(Top.inds[1]),
                            Below, Continue("select_table"))
         [] OTHER ->
              /\ stack' = Below \o Return
              /\ UNCHANGED hex_src
    /\ UNCHANGED table_src

MapStart ==
    /\ Running /\ Top.h = "map" /\ Top.at = "start"
    /\ \/ MapSkip
       \/ MapToggleOff
       \/ MapPropagate
    /\ UNCHANGED <<Built, toggle, bars, ev, rep, snap>>

\* line 149
MapOffHex ==
    /\ Running /\ Top.h = "map" /\ Top.at = "off_hex"
    /\ SetHexIndices(hex_src, <<>>, Below, Continue("off_table"))
    /\ UNCHANGED <<Built, map_src, table_src, toggle, bars, ev, rep, snap>>

\* lines 150-155
MapOffTable ==
    /\ Running /\ Top.h = "map" /\ Top.at = "off_table"
    /\ SetTableIndices(<<>>)
    /\ map_src' = [map_src EXCEPT !.data._last_sel = Null]
    /\ stack' = Below \o Return
    /\ UNCHANGED <<Built, hex_src, toggle, bars, ev, rep, snap>>

\* lines 160, 177-178
MapEmptyTable ==
    /\ Running /\ Top.h = "map" /\ Top.at = "empty_table"
    /\ SetTableIndices(<<>>)
    /\ stack' = Below \o Return
    /\ UNCHANGED <<Built, hex_src, map_src, toggle, bars, ev, rep, snap>>

\* lines 172-173, 177-178
MapSelectTable ==
    /\ Running /\ Top.h = "map" /\ Top.at = "select_table"
    /\ SetTableIndices(<<map_src.data.hc_cluster[Top.inds[1]]>>)
    /\ stack' = Below \o Return
    /\ UNCHANGED <<Built, hex_src, map_src, toggle, bars, ev, rep, snap>>

\* ---- user selection events: the tool stores the indices and the
\* 'indices' callback of the source runs
UserSelectHex(inds) ==
    /\ Quiescent
    /\ hex_src' = [hex_src EXCEPT !.selected.indices = inds]
    /\ stack' = <<Frame("hex", "start", inds, Null, FALSE)>>
    /\ Record("hex", last_sel(inds),
              Len(inds) = 1 /\ hex_src.data._last_sel # inds[1])
    /\ snap' = NoSnap
    /\ UNCHANGED <<Built, map_src, table_src, toggle, bars>>

UserSelectMap(inds) ==
    /\ Quiescent
    /\ map_src' = [map_src EXCEPT !.selected.indices = inds]
    /\ stack' = <<Frame("map", "start", inds, Null, FALSE)>>
    /\ Record("map", last_sel(inds),
              Len(inds) = 1 /\ map_src.data._last_sel # inds[1])
    /\ snap' = NoSnap
    /\ UNCHANGED <<Built, hex_src, table_src, toggle, bars>>

\* ---- U-Matrix toggle (plots.py 126-137)
\* a variant that shows the U-Matrix colours whatever the toggle says
toggled_colors_stuck(showU) == hex_src.data.u_color

\* lines 129-132
toggled_colors(showU) ==
    IF showU THEN hex_src.data.u_color ELSE hex_src.data.color

UMatrixToggle ==
    /\ Quiescent
    /\ LET showU == ~toggle.active
       IN /\ toggle' = [toggle EXCEPT !.active = showU]
          /\ hex_src' = [hex_src EXCEPT
                            !.data.display_color = toggled_colors(showU)]
          /\ bars' = [bar_c |-> ~showU, bar_u |-> showU]
          /\ Record("tog", Null, showU)
    /\ snap' = IF ev.kind = "tog" /\ ev.fresh THEN snap ELSE View
    /\ UNCHANGED <<Built, map_src, table_src, stack>>

\* one step of a running callback
HandlerStep ==
    \/ ButtonSetMap
    \/ ButtonSetTable
    \/ HexStart
    \/ HexOffMap
    \/ HexOffTable
    \/ HexEmptyTable
    \/ HexSelectTable
    \/ MapStart
    \/ MapOffHex
    \/ MapOffTable
    \/ MapEmptyTable
    \/ MapSelectTable

UserEvent ==
    \/ \E cl \in DOMAIN cluster_buttons : ClusterButtonClick(cl)
    \/ \E inds \in IndexLists(Nodes, MaxSel) :
          UserSelectHex(inds)
    \/ \E inds \in IndexLists(Observations, MaxSel) :
          UserSelectMap(inds)
    \/ UMatrixToggle

Pipeline ==
    \/ AssignClusters
    \/ ComputeClusterMeans
    \/ CreateWidgets
    \/ BuildHexPlot
    \/ BuildMapPlot
    \/ BuildDataTable

NextPipeline == Pipeline

SpecPipeline == InitPipeline /\ [][NextPipeline]_vars

Next == Pipeline \/ UserEvent \/ HandlerStep

Spec == Init /\ [][Next]_vars

\* the browser's event loop runs a started callback to its end
FairSpec == Spec /\ WF_vars(HandlerStep)

\* ------------------------------------------------------------ properties
HexSel == hex_src.selected.indices

MapSel == map_src.selected.indices

TableSel == table_src.selected.indices

AllEmpty == HexSel = <<>> /\ MapSel = <<>> /\ TableSel = <<>>

NodesOfCluster(cl) == {j \in Nodes : hex_src.data.hc_cluster[j] = cl}

RegionsOfCluster(cl) == {r \in Observations : map_src.data.hc_cluster[r] = cl}

RegionsAtNode(n) ==
    {r \in Observations :
        /\ map_src.data.bmu_x[r] = hex_src.data.bmu_x[n]
        /\ map_src.data.bmu_y[r] = hex_src.data.bmu_y[n]}

NoRepeats(q) == Cardinality(Range(q)) = Len(q)

\* a cascade started by a click on button cl that found the table selection
\* different from {cl} has run to completion
AfterButtonSelect(cl) ==
    Quiescent /\ ev.kind = "btn" /\ ev.arg = cl /\ ev.fresh

\* C1: after a click on cluster button cl in a state whose table selection
\* is not exactly {cl}, and all triggered callbacks, the node selection is
\* the set of nodes of cluster cl, the region selection the set of regions
\* of cluster cl, and the table selection {cl}
C1_ButtonSelectsCluster ==
    \A cl \in DOMAIN cluster_buttons :
        AfterButtonSelect(cl) =>
            /\ NoRepeats(HexSel) /\ Range(HexSel) = NodesOfCluster(cl)
            /\ NoRepeats(MapSel) /\ Range(MapSel) = RegionsOfCluster(cl)
            /\ TableSel = <<cl>>

\* C2 as stated: after two successive clicks on the same cluster button,
\* from any state, all three selections are empty
C2_TwoClicksClearFromAnyState ==
    (Quiescent /\ ev.kind = "btn" /\ rep \in {1, 2}) => AllEmpty

\* C2 amended: after two successive clicks on the same cluster button cl,
\* the first one made in a state whose table selection is not exactly {cl},
\* all three selections are empty
C2_TwoClicksClear ==
    (Quiescent /\ ev.kind = "btn" /\ rep = 1) => AllEmpty

C2_Witness ==
    /\ Quiescent /\ ev.kind = "btn" /\ rep = 1
    /\ NodesOfCluster(ev.arg) # {}
    /\ RegionsOfCluster(ev.arg) # {}

\* C3: after the user selects exactly node n, n not being the remembered
\* node, and all triggered callbacks, the node selection is {n}, the region
\* selection the regions whose BMU is n, the table selection {cluster of n}
C3_NodeSelectionPropagates ==
    (Quiescent /\ ev.kind = "hex" /\ ev.arg # Null /\ ev.fresh) =>
        /\ HexSel = <<ev.arg>>
        /\ NoRepeats(MapSel) /\ Range(MapSel) = RegionsAtNode(ev.arg)
        /\ TableSel = <<hex_src.data.hc_cluster[ev.arg]>>

\* C4: after the user selects exactly node n (n not the remembered node) and
\* then, as the next event, exactly node n again, all three selections are
\* empty and the node source's remembered index is null
C4_NodeToggleOff ==
    (Quiescent /\ ev.kind = "hex" /\ ev.arg # Null /\ rep = 1) =>
        AllEmpty /\ hex_src.data._last_sel = Null

\* C5: after the user selects exactly region r (r not the remembered region)
\* and then, as the next event, exactly region r again, all three
\* selections are empty
C5_RegionToggleOff ==
    (Quiescent /\ ev.kind = "map" /\ ev.arg # Null /\ rep = 1) => AllEmpty

\* the flat index of the unit at a region's BMU coordinates
NodeAt(bx, by) ==
    CHOOSE n \in Nodes :
        hex_src.data.bmu_x[n] = bx /\ hex_src.data.bmu_y[n] = by

\* C6: once the views are built, every region record has the cluster id of
\* the node record at its BMU coordinates
C6_ClusterIdsAgree ==
    pc = "ui" =>
        \A r \in Observations :
            map_src.data.hc_cluster[r] =
                hex_src.data.hc_cluster[NodeAt(map_src.data.bmu_x[r],
                                               map_src.data.bmu_y[r])]

\* C7: the number of summary rows, and of cluster buttons, is the number of
\* distinct cluster ids the clustering assigned to the SOM nodes
C7_RowsCountNodeClusters ==
    pc = "ui" =>
        /\ Len(cluster_means_df.hc_cluster) = Cardinality(Range(node_labels))
        /\ Cardinality(DOMAIN cluster_buttons) =
              Cardinality(Range(node_labels))

\* C8: a _skip flag that is set is consumed by the next callback step, an
\* invocation of the flagged source's own callback that resets it and
\* returns; no flag is set when no callback is running
C8_SkipIsOneShot ==
    pc = "ui" =>
        /\ hex_src.data._skip =>
              Running /\ Top.h = "hex" /\ Top.at = "start"
        /\ map_src.data._skip =>
              Running /\ Top.h = "map" /\ Top.at = "start"

C8_Witness ==
    pc = "ui" /\ map_src.data._skip /\ Len(stack) >= 2

\* C9: a running cascade can always take its next step: the nesting of
\* callbacks never reaches MaxDepth, so every cascade ends (a callback has
\* finitely many statements, and runs one nested callback per assignment)
C9_CascadeTerminates ==
    Running => (ENABLED HandlerStep) /\ Len(stack) < MaxDepth

C9_Witness ==
    /\ Running /\ Len(stack) >= 4
    /\ \E i \in 1..(Len(stack) - 1) :
          stack[i].h = "hex" /\ stack[i + 1].h = "map"
    /\ \E i \in 1..(Len(stack) - 1) :
          stack[i].h = "map" /\ stack[i + 1].h = "hex"

\* C9 as a liveness property, under the fairness of the event loop: a
\* started cascade reaches a state in which no callback is running
C9_EventuallyQuiescent == Running ~> Quiescent

\* C10: after the U-Matrix view is toggled on and then, as the next event,
\* off, every node's display colour is its cluster colour as before the two
\* toggles, the cluster legend is visible and the U-Matrix legend hidden,
\* and the three selections are as before
C10_ToggleRoundTrip ==
    (Quiescent /\ ev.kind = "tog" /\ rep = 1) =>
        /\ View = snap
        /\ hex_src.data.display_color = hex_src.data.color
        /\ bars = [bar_c |-> TRUE, bar_u |-> FALSE]

C10_Witness ==
    /\ Quiescent /\ ev.kind = "tog" /\ rep = 1
    /\ HexSel # <<>>
    /\ hex_src.data.u_color # hex_src.data.color

\* row i (0-based) of the summary table exists and is the row of cluster i
RowIsCluster(i) ==
    /\ i + 1 \in DOMAIN table_src.data.hc_cluster
    /\ table_src.data.hc_cluster[i + 1] = i

\* C11: once the dashboard is served, for every cluster button i summary
\* row i exists and has hc_cluster = i, and every index a callback has put
\* in the table selection is the row of the cluster with that id
C11_ButtonRowAlignment ==
    pc = "ui" =>
        /\ \A i \in DOMAIN cluster_buttons : RowIsCluster(i)
        /\ \A j \in 1..Len(TableSel) : RowIsCluster(TableSel[j])

=============================================================================
